---- MODULE Spec2Model ----
(***************************************************************************)
(* Weather-Station server (src/server/weather_api_ota.py): telemetry       *)
(* intake, device registry, firmware catalog, the update check and the     *)
(* read routes, with the online status the dashboards (src/dashboard)      *)
(* derive from them.                                                       *)
(*                                                                         *)
(* Strings the code parses (version strings, form fields) are sequences of *)
(* one-character strings, so that split, int and lower are computed.       *)
(*                                                                         *)
(* Spec is the whole server. The routes share no state but the tables, so  *)
(* each group of properties is checked under the specification of its      *)
(* routes: SpecIngest (telemetry intake, two concurrent requests),         *)
(* SpecRace (overlapping intake of one device), SpecUpload (firmware       *)
(* upload, two concurrent requests), SpecRetry (uploads one at a time,     *)
(* with failures), SpecNames (uploads under version strings that differ    *)
(* in one character), SpecDownload (uploads, lost files and downloads),    *)
(* SpecCheck (the update check over a catalog filled by uploads), SpecCmp  *)
(* (version_compare on its own), SpecValidate (the validation of intake),  *)
(* SpecConfig and SpecSettings (intake with device_config), SpecLatest,    *)
(* SpecStats and SpecHistory (intake with a read route) and SpecOnline     *)
(* (the dashboards).                                                       *)
(***************************************************************************)
EXTENDS Integers, Sequences, FiniteSets, TLC

VARIABLES
    now,        \* datetime.utcnow(), in whole seconds
    registry,   \* table device_registry: device_id -> row
    catalog,    \* table firmware_versions: the rows, in insertion order
    files,      \* the UPLOAD_FOLDER directory: filename -> bytes
    upl,        \* upload_firmware requests: worker -> position and locals
    chk,        \* check_firmware_update: the last request and its response
    readings,   \* table sensor_data: the rows, in commit order
    ing,        \* receive_sensor_data requests: worker -> position and locals
    cmpArgs,    \* version_compare: the three version strings under comparison
    cmpOut,     \* version_compare: the results, or NoResult before the calls
    qry         \* the read routes and device_config: the last request and
                \* its response

vars == <<now, registry, readings, catalog, files, upl, ing, chk, cmpArgs,
         cmpOut, qry>>


-----------------------------------------------------------------------------
(* Bounds *)

\* Most dot-separated components of a version string fed to version_compare.
MaxParts == 2

\* The last tick of the server clock.
MaxTime == 1

\* Most readings the telemetry table holds (one more under SpecRace).
MaxReadings == 2

-----------------------------------------------------------------------------
(* version_compare, src/server/weather_api_ota.py:117-131 *)

DigitChars == <<"0", "1", "2", "3", "4", "5", "6", "7", "8", "9">>

IsDigit(c) == \E i \in 1..10 : DigitChars[i] = c

DigitVal(c) == (CHOOSE i \in 1..10 : DigitChars[i] = c) - 1

\* The value Python's int(x) gives a string of decimal digits.
RECURSIVE DigitsValue(_)
DigitsValue(s) ==
    IF s = <<>> THEN 0
    ELSE 10 * DigitsValue(SubSeq(s, 1, Len(s) - 1)) + DigitVal(s[Len(s)])

\* int(x) raises ValueError on the empty string and on any character that is
\* not a digit (the characters modelled carry no sign, blank or underscore).
IntRaises(s) == s = <<>> \/ \E i \in 1..Len(s) : ~IsDigit(s[i])

\* str.split('.'): the pieces between the dots, empty pieces kept.
RECURSIVE SplitDots(_)
SplitDots(s) ==
    IF \A i \in 1..Len(s) : s[i] # "."
    THEN <<s>>
    ELSE LET k == CHOOSE i \in 1..Len(s) :
                      s[i] = "." /\ \A j \in 1..(i - 1) : s[j] # "."
         IN  <<SubSeq(s, 1, k - 1)>> \o SplitDots(SubSeq(s, k + 1, Len(s)))

\* [int(x) for x in v.split('.')], defined when no piece raises.
VersionParts(v) == [i \in 1..Len(SplitDots(v)) |-> DigitsValue(SplitDots(v)[i])]

VersionRaises(v) == \E i \in 1..Len(SplitDots(v)) : IntRaises(SplitDots(v)[i])

Max(a, b) == IF a >= b THEN a ELSE b

RECURSIVE CompareFrom(_, _, _)

\* A mutant of the loop: the elif branch returns 1 as the if branch does.
CompareFromSignSlip(p1, p2, i) ==
    IF i > Max(Len(p1), Len(p2)) THEN 0
    ELSE LET v1_part == IF i <= Len(p1) THEN p1[i] ELSE 0
             v2_part == IF i <= Len(p2) THEN p2[i] ELSE 0
         IN  IF v1_part > v2_part THEN 1
             ELSE IF v1_part < v2_part THEN 1
             ELSE CompareFrom(p1, p2, i + 1)

\* A mutant of the loop: it stops at the end of the shorter list instead of
\* reading a missing component as 0.
CompareFromNoPad(p1, p2, i) ==
    IF i > Len(p1) \/ i > Len(p2) THEN 0
    ELSE LET v1_part == p1[i]
             v2_part == p2[i]
         IN  IF v1_part > v2_part THEN 1
             ELSE IF v1_part < v2_part THEN -1
             ELSE CompareFrom(p1, p2, i + 1)

\* The loop of lines 122-131 from index i (1-based here) on.
CompareFrom(p1, p2, i) ==
    IF i > Max(Len(p1), Len(p2)) THEN 0
    ELSE LET v1_part == IF i <= Len(p1) THEN p1[i] ELSE 0
             v2_part == IF i <= Len(p2) THEN p2[i] ELSE 0
         IN  IF v1_part > v2_part THEN 1
             ELSE IF v1_part < v2_part THEN -1
             ELSE CompareFrom(p1, p2, i + 1)

\* version_compare(v1, v2): raised is TRUE when int() raises ValueError,
\* and value is the 1 / -1 / 0 returned otherwise.
version_compare(v1, v2) ==
    IF VersionRaises(v1) \/ VersionRaises(v2)
    THEN [raised |-> TRUE, value |-> 0]
    ELSE [raised |-> FALSE,
          value |-> CompareFrom(VersionParts(v1), VersionParts(v2), 1)]

-----------------------------------------------------------------------------
(* Values *)

\* An optional string: request.args.get and request.form.get give None for
\* a field the request does not carry.
None == [has |-> FALSE, s |-> <<>>]

Some(x) == [has |-> TRUE, s |-> x]

\* Python's `not x` on an optional string: None and "" are falsy.
Falsy(o) == ~o.has \/ o.s = <<>>

\* The request handlers that can run at the same time.
Workers == {"w1", "w2"}

\* Device ids are opaque: one token each.
DeviceIds == {<<"ESP32_001">>, <<"ESP32_002">>}

\* Version strings the requests carry.
V_1_5_0 == <<"1", ".", "5", ".", "0">>

V_2_0_0 == <<"2", ".", "0", ".", "0">>

V_unknown == <<"u", "n", "k", "n", "o", "w", "n">>

-----------------------------------------------------------------------------
(* Firmware catalog: upload_firmware, src/server/weather_api_ota.py:271-331 *)

UpperChars == <<"T", "R", "U", "E", "F", "A", "L", "S">>

LowerChars == <<"t", "r", "u", "e", "f", "a", "l", "s">>

\* str.lower() on the letters the form fields use.
Lower(s) ==
    [i \in 1..Len(s) |->
        IF \E k \in 1..Len(UpperChars) : UpperChars[k] = s[i]
        THEN LowerChars[CHOOSE k \in 1..Len(UpperChars) : UpperChars[k] = s[i]]
        ELSE s[i]]

\* Line 291: request.form.get('is_stable', 'true').lower() == 'true'.
ParseIsStable(field) ==
    Lower(IF field.has THEN field.s ELSE <<"t", "r", "u", "e">>)
        = <<"t", "r", "u", "e">>

\* werkzeug's secure_filename on the tokens of a file name: path separators
\* become blanks, the words between blanks are joined by "_", and what is
\* left keeps only letters, digits, "_", "." and "-".
BlankChars == {" ", "/"}

KeptChars ==
    {DigitChars[i] : i \in 1..10} \cup {UpperChars[i] : i \in 1..Len(UpperChars)}
    \cup {"a", "b", "d", "e", "f", "k", "l", "n", "o", "r", "s", "t", "u", "w"}
    \cup {"_", ".", "-", "firmware_v", "bin"}

\* "_".join(name.split()): pending is TRUE when blanks were skipped since
\* the last word character, started when a word character was seen at all.
RECURSIVE JoinWords(_, _, _)
JoinWords(s, started, pending) ==
    IF s = <<>> THEN <<>>
    ELSE IF Head(s) \in BlankChars THEN JoinWords(Tail(s), started, started)
    ELSE (IF pending THEN <<"_">> ELSE <<>>)
             \o <<Head(s)>> \o JoinWords(Tail(s), TRUE, FALSE)

secure_filename(name) ==
    SelectSeq(JoinWords(name, FALSE, FALSE), LAMBDA c : c \in KeptChars)

\* Line 308: secure_filename(f"firmware_v{version}.bin").
FirmwareFilename(version) ==
    secure_filename(<<"firmware_v">> \o version \o <<".", "bin">>)

\* hashlib.sha256 over the bytes: a digest that tells any two contents apart.
Sha256(bytes) == <<"sha256">> \o bytes

\* calculate_file_hash, lines 109-115: the digest of the bytes the file
\* holds when it is read.
calculate_file_hash(filename) == Sha256(files[filename])

FileExists(filename) == filename \in DOMAIN files

\* FirmwareVersion.query.filter_by(version=version).first()
VersionExists(version) ==
    \E i \in 1..Len(catalog) : catalog[i].version = version

IdleUpload ==
    [pc |-> "idle", status |-> 0, message |-> "", version |-> <<>>,
     content |-> <<>>, is_stable |-> FALSE, filename |-> <<>>,
     checksum |-> <<>>]

\* A response of upload_firmware: the request is over.
UploadDone(status, message, version, content) ==
    [IdleUpload EXCEPT !.pc = "done", !.status = status,
                       !.message = message, !.version = version,
                       !.content = content]

UploadFree(w) == upl[w].pc \in {"idle", "done", "crashed"}

\* A mutant of UploadRequest: no query for an existing version (lines
\* 299-305 left out).
UploadRequestNoExistsCheck(w, form) ==
    /\ UploadFree(w)
    /\ upl' = [upl EXCEPT ![w] =
         IF ~form.has_file
         THEN UploadDone(400, "No file provided", <<>>, <<>>)
         ELSE IF form.filename = <<>>
         THEN UploadDone(400, "No file selected", <<>>, <<>>)
         ELSE IF Falsy(form.version)
         THEN UploadDone(400, "Version is required", <<>>, <<>>)
         ELSE [IdleUpload EXCEPT !.pc = "save", !.version = form.version.s,
                                 !.content = form.content,
                                 !.is_stable = ParseIsStable(form.is_stable)]]
    /\ UNCHANGED <<now, registry, readings, catalog, files, ing, chk,
                   cmpArgs, cmpOut, qry>>

\* Lines 274-305: the request is validated and the catalog is asked for the
\* version; a request that passes goes on to save its file.
UploadRequest(w, form) ==
    /\ UploadFree(w)
    /\ upl' = [upl EXCEPT ![w] =
         IF ~form.has_file
         THEN UploadDone(400, "No file provided", <<>>, <<>>)
         ELSE IF form.filename = <<>>
         THEN UploadDone(400, "No file selected", <<>>, <<>>)
         ELSE IF Falsy(form.version)
         THEN UploadDone(400, "Version is required", <<>>, <<>>)
         ELSE IF VersionExists(form.version.s)
         THEN UploadDone(400, "Version already exists", form.version.s,
                         form.content)
         ELSE [IdleUpload EXCEPT !.pc = "save", !.version = form.version.s,
                                 !.content = form.content,
                                 !.is_stable = ParseIsStable(form.is_stable)]]
    /\ UNCHANGED <<now, registry, readings, catalog, files, ing, chk,
                   cmpArgs, cmpOut, qry>>

\* A mutant of UploadSave: a file that is already there is left as it is.
UploadSaveKeepsExisting(w) ==
    /\ upl[w].pc = "save"
    /\ LET filename == FirmwareFilename(upl[w].version)
       IN  /\ files' = files @@ (filename :> upl[w].content)
           /\ upl' = [upl EXCEPT ![w].pc = "hash", ![w].filename = filename]
    /\ UNCHANGED <<now, registry, readings, catalog, ing, chk, cmpArgs,
                   cmpOut, qry>>

\* Lines 307-310: file.save(filepath) writes the bytes under the name made
\* from the version, over whatever the name holds. The write is one step:
\* a reader sees the old bytes or the new ones, never a part of them.
UploadSave(w) ==
    /\ upl[w].pc = "save"
    /\ LET filename == FirmwareFilename(upl[w].version)
       IN  /\ files' = (filename :> upl[w].content) @@ files
           /\ upl' = [upl EXCEPT ![w].pc = "hash", ![w].filename = filename]
    /\ UNCHANGED <<now, registry, readings, catalog, ing, chk, cmpArgs,
                   cmpOut, qry>>

\* Lines 312-313: the checksum of the file as it is now; open() raises on
\* a file that is gone, and the request ends in a 500.
UploadHash(w) ==
    /\ upl[w].pc = "hash"
    /\ upl' = IF FileExists(upl[w].filename)
              THEN [upl EXCEPT
                       ![w].pc = "commit",
                       ![w].checksum = calculate_file_hash(upl[w].filename)]
              ELSE [upl EXCEPT
                       ![w] = UploadDone(500, "FileNotFoundError",
                                         upl[w].version, upl[w].content)]
    /\ UNCHANGED <<now, registry, readings, catalog, files, ing, chk,
                   cmpArgs, cmpOut, qry>>

\* The row of lines 316-322; release_date is the column default,
\* datetime.utcnow at the INSERT.
NewRelease(w) ==
    [version |-> upl[w].version, filename |-> upl[w].filename,
     is_stable |-> upl[w].is_stable, checksum |-> upl[w].checksum,
     release_date |-> now]

\* Lines 324-331: the INSERT and the commit. The unique index on version (line
\* 60) refuses a second row; the IntegrityError is not caught, the request
\* ends in a 500 and the file stays as it is.
UploadCommit(w) ==
    /\ upl[w].pc = "commit"
    /\ IF VersionExists(upl[w].version)
       THEN /\ upl' = [upl EXCEPT ![w] =
                   UploadDone(500, "IntegrityError", upl[w].version,
                              upl[w].content)]
            /\ UNCHANGED catalog
       ELSE /\ catalog' = Append(catalog, NewRelease(w))
            /\ upl' = [upl EXCEPT ![w] =
                   UploadDone(201, "Firmware uploaded successfully",
                              upl[w].version, upl[w].content)]
    /\ UNCHANGED <<now, registry, readings, files, ing, chk, cmpArgs,
                   cmpOut, qry>>

\* The request dies between line 307 and line 325 (the process is killed, the
\* disk or the database fails): nothing is undone.
UploadCrash(w) ==
    /\ upl[w].pc \in {"save", "hash", "commit"}
    /\ upl' = [upl EXCEPT ![w] =
            [IdleUpload EXCEPT !.pc = "crashed", !.version = upl[w].version,
                               !.content = upl[w].content,
                               !.filename = upl[w].filename]]
    /\ UNCHANGED <<now, registry, readings, catalog, files, ing, chk,
                   cmpArgs, cmpOut, qry>>

\* Firmware binaries.
Contents == {<<"a">>, <<"b">>}

\* The is_stable form field: absent, or one of these strings.
StableFields ==
    {None, Some(<<"t", "r", "u", "e">>), Some(<<"T", "r", "u", "e">>),
     Some(<<"f", "a", "l", "s", "e">>), Some(<<"1">>)}

\* Multipart forms that carry a file and a version.
GoodForms(versions, stableFields, contents) ==
    { [has_file |-> TRUE, filename |-> <<"fw.bin">>, version |-> Some(v),
       is_stable |-> st, content |-> c] :
      v \in versions, st \in stableFields, c \in contents }

\* Forms lines 275-297 turn down.
BadForms ==
    { [has_file |-> FALSE, filename |-> <<>>, version |-> Some(V_2_0_0),
       is_stable |-> None, content |-> <<>>],
      [has_file |-> TRUE, filename |-> <<>>, version |-> Some(V_2_0_0),
       is_stable |-> None, content |-> <<>>],
      [has_file |-> TRUE, filename |-> <<"fw.bin">>, version |-> None,
       is_stable |-> None, content |-> <<"a">>],
      [has_file |-> TRUE, filename |-> <<"fw.bin">>, version |-> Some(<<>>),
       is_stable |-> None, content |-> <<"a">>] }

-----------------------------------------------------------------------------
(* Update check: check_firmware_update, lines 228-269 *)

\* A mutant of the filter: every row counts, stable or not.
StableRowsUnfiltered == 1..Len(catalog)

StableRows == {i \in 1..Len(catalog) : catalog[i].is_stable}

\* A mutant of the ordering: ascending, so the oldest stable row comes first.
LatestStableAscending ==
    { catalog[i] : i \in
        {i \in StableRows :
            \A j \in StableRows :
                catalog[j].release_date >= catalog[i].release_date} }

\* Line 241: filter_by(is_stable=True).order_by(release_date.desc()).first().
\* Among rows of one release_date the database returns any.
LatestStable ==
    { catalog[i] : i \in
        {i \in StableRows :
            \A j \in StableRows :
                catalog[j].release_date <= catalog[i].release_date} }

CheckAnswer(status, update_available, latest_version, new_version, checksum) ==
    [status |-> status, update_available |-> update_available,
     latest_version |-> latest_version, new_version |-> new_version,
     checksum |-> checksum]

\* A mutant of line 251: >= 0 in place of > 0.
CheckAgainstNotLess(L, current_version) ==
    LET cmp == version_compare(L.version, current_version)
    IN  IF cmp.raised
        THEN CheckAnswer(500, FALSE, None, None, None)
        ELSE IF cmp.value >= 0
        THEN CheckAnswer(200, TRUE, Some(L.version), Some(L.version),
                         Some(L.checksum))
        ELSE CheckAnswer(200, FALSE, Some(L.version), None, None)

\* A mutant of the check: an update is offered whenever the versions differ.
CheckAgainstAnyDifference(L, current_version) ==
    LET cmp == version_compare(L.version, current_version)
    IN  IF cmp.raised
        THEN CheckAnswer(500, FALSE, None, None, None)
        ELSE IF cmp.value # 0
        THEN CheckAnswer(200, TRUE, Some(L.version), Some(L.version),
                         Some(L.checksum))
        ELSE CheckAnswer(200, FALSE, Some(L.version), None, None)

\* A mutant of the check: the latest stable release is offered whatever the
\* comparison says.
CheckAgainstAlwaysOffers(L, current_version) ==
    LET cmp == version_compare(L.version, current_version)
    IN  IF cmp.raised
        THEN CheckAnswer(500, FALSE, None, None, None)
        ELSE CheckAnswer(200, TRUE, Some(L.version), Some(L.version),
                         Some(L.checksum))

\* Lines 250-269 for the latest stable row L. A ValueError of version_compare
\* is not caught: the request ends in a 500.
CheckAgainst(L, current_version) ==
    LET cmp == version_compare(L.version, current_version)
    IN  IF cmp.raised
        THEN CheckAnswer(500, FALSE, None, None, None)
        ELSE IF cmp.value > 0
        THEN CheckAnswer(200, TRUE, Some(L.version), Some(L.version),
                         Some(L.checksum))
        ELSE CheckAnswer(200, FALSE, Some(L.version), None, None)

\* A mutant of the check: a device with auto_update off is told nothing.
CheckResponsesGated(device_id, current_version) ==
    IF Falsy(device_id) \/ Falsy(current_version)
    THEN {CheckAnswer(400, FALSE, None, None, None)}
    ELSE IF LatestStable = {}
    THEN {CheckAnswer(200, FALSE, None, None, None)}
    ELSE IF device_id.s \in DOMAIN registry /\ ~registry[device_id.s].auto_update
    THEN { CheckAnswer(200, FALSE, Some(L.version), None, None) :
           L \in LatestStable }
    ELSE { CheckAgainst(L, current_version.s) : L \in LatestStable }

\* The responses check_firmware_update can give (one for each row the
\* database may return as the latest).
CheckResponses(device_id, current_version) ==
    IF Falsy(device_id) \/ Falsy(current_version)
    THEN {CheckAnswer(400, FALSE, None, None, None)}
    ELSE IF LatestStable = {}
    THEN {CheckAnswer(200, FALSE, None, None, None)}
    ELSE { CheckAgainst(L, current_version.s) : L \in LatestStable }

NoCheck ==
    [called |-> FALSE, device_id |-> None, current_version |-> None,
     response |-> CheckAnswer(0, FALSE, None, None, None)]

\* GET /api/v1/firmware/check
check_firmware_update(device_id, current_version) ==
    /\ \E r \in CheckResponses(device_id, current_version) :
          chk' = [called |-> TRUE, device_id |-> device_id,
                  current_version |-> current_version, response |-> r]
    /\ UNCHANGED <<now, registry, readings, catalog, files, upl, ing,
                   cmpArgs, cmpOut, qry>>

\* The query strings: a device with each current_version, and the requests
\* line 234 turns down.
CheckArgs ==
    { <<Some(d), Some(v)>> : d \in DeviceIds,
                             v \in {V_1_5_0, V_2_0_0, V_unknown} }
    \cup { <<None, Some(V_1_5_0)>>, <<Some(<<>>), Some(V_1_5_0)>>,
           <<Some(<<"ESP32_001">>), None>>, <<Some(<<"ESP32_001">>), Some(<<>>)>> }

-----------------------------------------------------------------------------
(* Telemetry intake: receive_sensor_data, lines 134-225 *)

\* JSON values of the request body. Temperatures and humidities are whole
\* numbers here.
Missing == [kind |-> "missing", n |-> 0, s |-> <<>>]

Null == [kind |-> "null", n |-> 0, s |-> <<>>]

Num(n) == [kind |-> "num", n |-> n, s |-> <<>>]

Text(s) == [kind |-> "str", n |-> 0, s |-> s]

\* A JSON array: a value that is neither a scalar nor an object.
List == [kind |-> "list", n |-> 0, s |-> <<>>]

\* request.get_json() gives a dict for a JSON object; the bodies modelled as
\* objects are the records with the five fields of Body.
IsObject(data) == "device_id" \in DOMAIN data

\* A string datetime.fromisoformat parses, to tick n.
Iso(n) == [kind |-> "iso", n |-> n, s |-> <<>>]

\* float(x), lines 151-152: a number, or a string of digits, converts; any
\* other string raises ValueError; null and an array raise TypeError.
FloatError(x) ==
    IF x.kind = "num" THEN "none"
    ELSE IF x.kind = "str" THEN (IF IntRaises(x.s) THEN "ValueError" ELSE "none")
    ELSE "TypeError"

FloatValue(x) == IF x.kind = "num" THEN x.n ELSE DigitsValue(x.s)

\* Lines 172-178: the timestamp of the reading, server time unless the body
\* carries a string that parses; .replace on a value that is no string raises
\* AttributeError.
TimestampError(x) == x.kind \in {"num", "null", "list"}

ParseTimestamp(x) == IF x.kind = "iso" THEN x.n ELSE now

\* A mutant of the range check: the bounds themselves are turned down.
TemperatureInRangeStrict(temperature) == -50 < temperature /\ temperature < 100

\* Line 160: -50 <= temperature <= 100.
TemperatureInRange(temperature) == -50 <= temperature /\ temperature <= 100

\* Line 166: 0 <= humidity <= 100.
HumidityInRange(humidity) == 0 <= humidity /\ humidity <= 100

\* Line 181: data.get('firmware_version', 'unknown').
FirmwareOf(x) == IF x.kind = "missing" THEN V_unknown ELSE x.s

\* A registry row as receive_sensor_data inserts it (lines 202-207), with
\* the column defaults of lines 89-90.
NewDevice(firmware, last_seen, ip, registered_at) ==
    [current_firmware |-> firmware, last_seen |-> last_seen, last_ip |-> ip,
     registered_at |-> registered_at, auto_update |-> TRUE]

NoReading ==
    [device_id |-> <<>>, temperature |-> 0, humidity |-> 0,
     firmware_version |-> <<>>, timestamp |-> 0, created_at |-> 0]

\* No registry row loaded.
NotLoaded == [current_firmware |-> <<>>, last_ip |-> ""]

IdleIngest ==
    [pc |-> "idle", status |-> 0, message |-> "", reading |-> NoReading,
     found |-> FALSE, loaded |-> NotLoaded, last_seen |-> 0, last_ip |-> ""]

\* A response of receive_sensor_data that stores nothing.
IngestRejected(status, message) ==
    [IdleIngest EXCEPT !.pc = "done", !.status = status, !.message = message]

IngestFree(w) == ing[w].pc \in {"idle", "done", "crashed"}

\* Lines 137-208: validation, the new SensorData row (its created_at is the
\* column default at the flush the query of line 195 triggers) and the read
\* of the registry, which loads the device's row into the session. What the
\* request will write waits for the commit.
\* A body that is no object: `field not in data` is true of an array and of
\* a string without the field name (400), and raises TypeError on null and
\* on a number, which line 220 turns into 500.
IngestOutcome(data, ip) ==
    IF ~IsObject(data)
    THEN (IF data.kind \in {"list", "str"}
          THEN IngestRejected(400, "Missing required field: device_id")
          ELSE IngestRejected(500, "Internal server error"))
    ELSE IF data.device_id.kind = "missing"
    THEN IngestRejected(400, "Missing required field: device_id")
    ELSE IF data.temperature.kind = "missing"
    THEN IngestRejected(400, "Missing required field: temperature")
    ELSE IF data.humidity.kind = "missing"
    THEN IngestRejected(400, "Missing required field: humidity")
    ELSE IF "ValueError" \in {FloatError(data.temperature),
                              FloatError(data.humidity)}
            /\ FloatError(data.temperature) # "TypeError"
    THEN IngestRejected(400, "Invalid data type for temperature or humidity")
    ELSE IF "TypeError" \in {FloatError(data.temperature),
                             FloatError(data.humidity)}
    THEN IngestRejected(500, "Internal server error")
    ELSE IF ~TemperatureInRange(FloatValue(data.temperature))
    THEN IngestRejected(400, "Temperature out of reasonable range")
    ELSE IF ~HumidityInRange(FloatValue(data.humidity))
    THEN IngestRejected(400, "Humidity out of reasonable range")
    ELSE IF TimestampError(data.timestamp)
    THEN IngestRejected(500, "Internal server error")
    ELSE IF data.device_id.kind \in {"null", "list"}
    THEN IngestRejected(500, "Internal server error")
    ELSE [pc |-> "commit", status |-> 0, message |-> "",
          reading |->
              [device_id |-> data.device_id.s,
               temperature |-> FloatValue(data.temperature),
               humidity |-> FloatValue(data.humidity),
               firmware_version |-> FirmwareOf(data.firmware_version),
               timestamp |-> ParseTimestamp(data.timestamp),
               created_at |-> now],
          found |-> data.device_id.s \in DOMAIN registry,
          loaded |->
              IF data.device_id.s \in DOMAIN registry
              THEN [current_firmware |->
                        registry[data.device_id.s].current_firmware,
                    last_ip |-> registry[data.device_id.s].last_ip]
              ELSE NotLoaded,
          last_seen |-> now, last_ip |-> ip]

\* POST /api/v1/sensor/data up to the commit.
IngestBegin(w, data, ip) ==
    /\ IngestFree(w)
    /\ ing' = [ing EXCEPT ![w] = IngestOutcome(data, ip)]
    /\ UNCHANGED <<now, registry, readings, catalog, files, upl, chk,
                   cmpArgs, cmpOut, qry>>

\* The readings stored and about to be stored.
ReadingsInSight ==
    Len(readings) + Cardinality({v \in Workers : ing[v].pc = "commit"})

\* The request while the table has room for its reading.
IngestRequest(w, data, ip) ==
    /\ ReadingsInSight < MaxReadings
    /\ IngestBegin(w, data, ip)

IngestDone(w, status, message) ==
    [ing EXCEPT ![w].pc = "done", ![w].status = status, ![w].message = message]

\* A mutant of the registry write: the UPDATE rewrites the whole row from the
\* column defaults, as the INSERT does.
TouchedWholeRow(w) ==
    LET d == ing[w].reading.device_id
    IN  IF ing[w].found
        THEN [registry EXCEPT
                 ![d] = NewDevice(ing[w].reading.firmware_version,
                                  ing[w].last_seen, ing[w].last_ip, now)]
        ELSE (d :> NewDevice(ing[w].reading.firmware_version,
                             ing[w].last_seen, ing[w].last_ip, now))
             @@ registry

\* The registry after the request's write: the UPDATE of lines 197-199, or
\* the INSERT of lines 202-208 with registered_at and auto_update from the
\* column defaults. The session's UPDATE names the columns whose assigned
\* value differs from the value line 195 loaded, and leaves the others as
\* the table has them at the commit; last_seen, a utcnow() with
\* microseconds against a loaded DATETIME, always differs.
Touched(w) ==
    LET d == ing[w].reading.device_id
    IN  IF ing[w].found
        THEN [registry EXCEPT
                 ![d].last_seen = ing[w].last_seen,
                 ![d].last_ip =
                     IF ing[w].last_ip # ing[w].loaded.last_ip
                     THEN ing[w].last_ip ELSE @,
                 ![d].current_firmware =
                     IF ing[w].reading.firmware_version
                            # ing[w].loaded.current_firmware
                     THEN ing[w].reading.firmware_version ELSE @]
        ELSE (d :> NewDevice(ing[w].reading.firmware_version,
                             ing[w].last_seen, ing[w].last_ip, now))
             @@ registry

\* A mutant of IngestCommit: the reading is committed on its own before the
\* registry write, so a refused registry INSERT leaves the reading stored.
IngestCommitReadingFirst(w) ==
    /\ ing[w].pc = "commit"
    /\ readings' = Append(readings, ing[w].reading)
    /\ IF ~ing[w].found /\ ing[w].reading.device_id \in DOMAIN registry
       THEN /\ ing' = IngestDone(w, 500, "Internal server error")
            /\ UNCHANGED registry
       ELSE /\ registry' = Touched(w)
            /\ ing' = IngestDone(w, 201, "Data received successfully")
    /\ UNCHANGED <<now, catalog, files, upl, chk, cmpArgs, cmpOut, qry>>

\* Line 210, db.session.commit(): the reading and the registry write in one
\* transaction. The unique index on device_id (line 84) refuses the INSERT of
\* a device another request has registered meanwhile; the IntegrityError is
\* caught at line 220, the transaction is rolled back and the answer is 500.
IngestCommit(w) ==
    /\ ing[w].pc = "commit"
    /\ IF ~ing[w].found /\ ing[w].reading.device_id \in DOMAIN registry
       THEN /\ ing' = IngestDone(w, 500, "Internal server error")
            /\ UNCHANGED <<registry, readings>>
       ELSE /\ readings' = Append(readings, ing[w].reading)
            /\ registry' = Touched(w)
            /\ ing' = IngestDone(w, 201, "Data received successfully")
    /\ UNCHANGED <<now, catalog, files, upl, chk, cmpArgs, cmpOut, qry>>

\* The request dies before the commit: the transaction is rolled back.
IngestCrash(w) ==
    /\ ing[w].pc = "commit"
    /\ ing' = [ing EXCEPT ![w].pc = "crashed"]
    /\ UNCHANGED <<now, registry, readings, catalog, files, upl, chk,
                   cmpArgs, cmpOut, qry>>

\* No request to a read route or to device_config so far.
NoQuery == [route |-> "none"]

\* request.remote_addr
Ips == {"10.0.0.1"}

Body(device_id, temperature, humidity, firmware_version, timestamp) ==
    [device_id |-> device_id, temperature |-> temperature,
     humidity |-> humidity, firmware_version |-> firmware_version,
     timestamp |-> timestamp]

\* Bodies that pass validation: a reading of 23 degrees and 41 percent.
GoodBodies(devices, firmwares, timestamps) ==
    { Body(Text(d), Num(23), Num(41), f, t) :
      d \in devices, f \in firmwares, t \in timestamps }

\* Bodies the handler turns down.
BadBodies ==
    { Body(Missing, Num(23), Num(41), Missing, Missing),
      Body(Text(<<"ESP32_001">>), Text(<<"x">>), Num(41), Missing, Missing),
      Body(Text(<<"ESP32_001">>), Num(150), Num(41), Missing, Missing),
      Body(Text(<<"ESP32_001">>), Num(23), Num(-5), Missing, Missing) }

-----------------------------------------------------------------------------
(* Device configuration: device_config, lines 376-405 *)

\* The JSON bodies of a POST: with the field auto_update or without it.
ConfigBodies ==
    { [has_auto_update |-> TRUE, auto_update |-> TRUE],
      [has_auto_update |-> TRUE, auto_update |-> FALSE],
      [has_auto_update |-> FALSE, auto_update |-> FALSE] }

\* A mutant of lines 396-399: the value is written to every row.
ConfiguredEveryDevice(device_id, data) ==
    IF data.has_auto_update
    THEN [d \in DOMAIN registry |->
             [registry[d] EXCEPT !.auto_update = data.auto_update]]
    ELSE registry

\* The registry after lines 396-399.
Configured(device_id, data) ==
    IF data.has_auto_update
    THEN [registry EXCEPT ![device_id].auto_update = data.auto_update]
    ELSE registry

ConfigAnswer(device_id, method, status, device) ==
    [route |-> "config", device_id |-> device_id, method |-> method,
     status |-> status, device |-> device]

\* GET or POST /api/v1/devices/<device_id>/config
device_config(device_id, method, data) ==
    /\ IF device_id \notin DOMAIN registry
       THEN /\ qry' = ConfigAnswer(device_id, method, 404,
                                   NewDevice(<<>>, 0, "", 0))
            /\ UNCHANGED registry
       ELSE IF method = "GET"
       THEN /\ qry' = ConfigAnswer(device_id, method, 200, registry[device_id])
            /\ UNCHANGED registry
       ELSE /\ registry' = Configured(device_id, data)
            /\ qry' = ConfigAnswer(device_id, method, 200,
                                   Configured(device_id, data)[device_id])
    /\ UNCHANGED <<now, readings, catalog, files, upl, ing, chk, cmpArgs,
                   cmpOut>>

-----------------------------------------------------------------------------
(* The read routes: get_latest_data, lines 407-429, and get_sensor_stats,  *)
(* lines 487-555                                                           *)

\* Line 412, with the filter of lines 414-415 when device_id is given.
RowsOf(device_id) ==
    {i \in 1..Len(readings) :
        Falsy(device_id) \/ readings[i].device_id = device_id.s}

\* order_by(timestamp.desc()).first(): a row with no later timestamp among
\* the rows; the database may return any of several with the same one.
LatestRows(device_id) ==
    {i \in RowsOf(device_id) :
        \A j \in RowsOf(device_id) :
            readings[j].timestamp <= readings[i].timestamp}

LatestAnswer(device_id, status, id, data) ==
    [route |-> "latest", device_id |-> device_id, status |-> status,
     id |-> id, data |-> data]

\* GET /api/v1/sensor/latest
get_latest_data(device_id) ==
    /\ IF LatestRows(device_id) = {}
       THEN qry' = LatestAnswer(device_id, 404, 0, NoReading)
       ELSE \E i \in LatestRows(device_id) :
                qry' = LatestAnswer(device_id, 200, i, readings[i])
    /\ UNCHANGED <<now, registry, readings, catalog, files, upl, ing, chk,
                   cmpArgs, cmpOut>>

\* Lines 500-508: the length of the window in seconds, 24 hours when the
\* period is absent or not one of the four.
PeriodSeconds(period) ==
    IF ~period.has THEN 86400
    ELSE CASE period.s = <<"1", "h">>      -> 3600
           [] period.s = <<"2", "4", "h">> -> 86400
           [] period.s = <<"7", "d">>      -> 604800
           [] period.s = <<"3", "0", "d">> -> 2592000
           [] OTHER                        -> 86400

\* Lines 511-514: the rows of the device from start_time on, in table order.
StatsRows(device_id, period) ==
    SelectSeq(readings,
              LAMBDA r : /\ r.device_id = device_id
                         /\ r.timestamp >= now - PeriodSeconds(period))

RECURSIVE Sum(_)
Sum(values) ==
    IF values = <<>> THEN 0 ELSE Head(values) + Sum(Tail(values))

Min(values) ==
    CHOOSE x \in {values[i] : i \in 1..Len(values)} :
        \A i \in 1..Len(values) : x <= values[i]

MaxOf(values) ==
    CHOOSE x \in {values[i] : i \in 1..Len(values)} :
        \A i \in 1..Len(values) : x >= values[i]

\* min, max and avg of a list; avg is the exact quotient num / den of
\* sum(values) / len(values).
Aggregate(values) ==
    [min |-> Min(values), max |-> MaxOf(values),
     avg |-> [num |-> Sum(values), den |-> Len(values)]]

\* The literal zeros of lines 520-522.
ZeroAggregate == [min |-> 0, max |-> 0, avg |-> [num |-> 0, den |-> 1]]

StatsAnswer(device_id, period, status, temperature, humidity, data_points) ==
    [route |-> "stats", device_id |-> device_id, period |-> period,
     status |-> status, temperature |-> temperature, humidity |-> humidity,
     data_points |-> data_points]

\* A mutant of lines 516-543 without the branch for an empty result: min()
\* of an empty list raises and line 550 answers 500.
StatsOfNoEmptyBranch(device_id, period, data) ==
    IF data = <<>>
    THEN StatsAnswer(device_id, period, 500, ZeroAggregate, ZeroAggregate, 0)
    ELSE StatsAnswer(device_id, period, 200,
             Aggregate([i \in 1..Len(data) |-> data[i].temperature]),
             Aggregate([i \in 1..Len(data) |-> data[i].humidity]),
             Len(data))

\* Lines 516-548: the answer for the rows the query returned.
StatsOf(device_id, period, data) ==
    IF data = <<>>
    THEN StatsAnswer(device_id, period, 200, ZeroAggregate, ZeroAggregate, 0)
    ELSE StatsAnswer(device_id, period, 200,
             Aggregate([i \in 1..Len(data) |-> data[i].temperature]),
             Aggregate([i \in 1..Len(data) |-> data[i].humidity]),
             Len(data))

\* GET /api/v1/sensor/stats
get_sensor_stats(device_id, period) ==
    /\ IF Falsy(device_id)
       THEN qry' = StatsAnswer(device_id, period, 400, ZeroAggregate,
                               ZeroAggregate, 0)
       ELSE qry' = StatsOf(device_id, period, StatsRows(device_id.s, period))
    /\ UNCHANGED <<now, registry, readings, catalog, files, upl, ing, chk,
                   cmpArgs, cmpOut>>

-----------------------------------------------------------------------------
(* download_firmware, lines 333-352 *)

\* The rows of the catalog with the version (one at most, line 60).
RowsOfVersion(version) ==
    {i \in 1..Len(catalog) : catalog[i].version = version}

DownloadAnswer(version, status, message, download_name, body) ==
    [route |-> "download", version |-> version, status |-> status,
     message |-> message, download_name |-> download_name, body |-> body]

\* Lines 336-352: the answer to GET /api/v1/firmware/download/<version>.
DownloadResponse(version) ==
    IF RowsOfVersion(version) = {}
    THEN DownloadAnswer(version, 404, "Firmware version not found", <<>>, <<>>)
    ELSE LET firmware == catalog[CHOOSE i \in RowsOfVersion(version) : TRUE]
         IN  IF ~FileExists(firmware.filename)
             THEN DownloadAnswer(version, 404, "Firmware file not found",
                                 <<>>, <<>>)
             ELSE DownloadAnswer(version, 200, "", firmware.filename,
                                 files[firmware.filename])

download_firmware(version) ==
    /\ qry' = DownloadResponse(version)
    /\ UNCHANGED <<now, registry, readings, catalog, files, upl, ing, chk,
                   cmpArgs, cmpOut>>

\* The environment of line 346: a file of UPLOAD_FOLDER is removed from
\* outside the server (the os.path.exists check is there for this).
RemoveFile(filename) ==
    /\ filename \in DOMAIN files
    /\ files' = [f \in DOMAIN files \ {filename} |-> files[f]]
    /\ UNCHANGED <<now, registry, readings, catalog, upl, ing, chk,
                   cmpArgs, cmpOut, qry>>

-----------------------------------------------------------------------------
(* get_historical_data, lines 438-478. The query parameters are strings:   *)
(* Iso(n) is one that datetime.fromisoformat parses, Num(n) one that int   *)
(* parses, Text(s) any other, Missing an absent one.                       *)

\* Python's `if x:` on a query parameter: absent and "" are falsy.
Given(x) == x.kind # "missing" /\ x # Text(<<>>)

\* Line 445, request.args.get('limit', 100, type=int): the default when the
\* parameter is absent or int() turns it down.
HistoryLimit(limit) == IF limit.kind = "num" THEN limit.n ELSE 100

\* Lines 447-470: the rows the filters let through.
HistoryRows(device_id, start_date, end_date) ==
    {i \in 1..Len(readings) :
        /\ Falsy(device_id) \/ readings[i].device_id = device_id.s
        /\ Given(start_date) => readings[i].timestamp >= start_date.n
        /\ Given(end_date) => readings[i].timestamp <= end_date.n}

\* A mutant of the ordering: oldest first.
HistoryPagesAscending(rows, limit) ==
    LET n == IF limit < Cardinality(rows) THEN limit ELSE Cardinality(rows)
    IN  {page \in [1..n -> rows] :
            /\ \A a, b \in 1..n : a # b => page[a] # page[b]
            /\ \A a, b \in 1..n :
                   a < b => readings[page[a]].timestamp
                                <= readings[page[b]].timestamp
            /\ \A a \in 1..n : \A j \in rows :
                   (\A b \in 1..n : page[b] # j)
                   => readings[j].timestamp >= readings[page[a]].timestamp}

\* Lines 447 and 472, order_by(timestamp.desc()).limit(limit).all(): the
\* first rows of the ordering, as row numbers; rows with the same timestamp
\* come in any order.
HistoryPages(rows, limit) ==
    LET n == IF limit < Cardinality(rows) THEN limit ELSE Cardinality(rows)
    IN  {page \in [1..n -> rows] :
            /\ \A a, b \in 1..n : a # b => page[a] # page[b]
            /\ \A a, b \in 1..n :
                   a < b => readings[page[a]].timestamp
                                >= readings[page[b]].timestamp
            /\ \A a \in 1..n : \A j \in rows :
                   (\A b \in 1..n : page[b] # j)
                   => readings[j].timestamp <= readings[page[a]].timestamp}

HistoryAnswer(status, message, ids) ==
    [route |-> "history", status |-> status, message |-> message,
     count |-> Len(ids), ids |-> ids,
     data |-> [k \in 1..Len(ids) |-> readings[ids[k]]]]

\* GET /api/v1/sensor/history. A negative limit is refused by the database
\* and line 480 answers 500.
get_historical_data(device_id, start_date, end_date, limit) ==
    /\ IF Given(start_date) /\ start_date.kind # "iso"
       THEN qry' = HistoryAnswer(400, "Invalid start_date format", <<>>)
       ELSE IF Given(end_date) /\ end_date.kind # "iso"
       THEN qry' = HistoryAnswer(400, "Invalid end_date format", <<>>)
       ELSE IF HistoryLimit(limit) < 0
       THEN qry' = HistoryAnswer(500, "Internal server error", <<>>)
       ELSE \E page \in HistoryPages(
                            HistoryRows(device_id, start_date, end_date),
                            HistoryLimit(limit)) :
                qry' = HistoryAnswer(200, "", page)
    /\ UNCHANGED <<now, registry, readings, catalog, files, upl, ing, chk,
                   cmpArgs, cmpOut>>

-----------------------------------------------------------------------------
(* Online status on the dashboards: get_device_status,                     *)
(* src/dashboard/dashboard.py:166-207 with its caller at lines 245-258,    *)
(* and show_dashboard, src/dashboard/firmware_manager.py:290-319. The      *)
(* dashboard hosts are taken to keep UTC and the server's clock.           *)

\* dashboard.py:170
ONLINE_TIMEOUT_SECONDS == 180

Abs(x) == IF x < 0 THEN 0 - x ELSE x

\* dashboard.py:166-207: False without a timestamp, else whether the
\* absolute difference to the current time is at most the timeout.
get_device_status(last_update) ==
    IF ~last_update.has THEN FALSE
    ELSE ~(Abs(now - last_update.t) > ONLINE_TIMEOUT_SECONDS)

\* The sensor dashboard (dashboard.py:245-258): the status shown for a
\* device is computed from the timestamp of its latest reading; nothing is
\* shown when the device has none.
show_device_status(device_id) ==
    /\ IF LatestRows(Some(device_id)) = {}
       THEN qry' = [route |-> "dashboard", device_id |-> device_id,
                    shown |-> FALSE, is_online |-> FALSE]
       ELSE \E i \in LatestRows(Some(device_id)) :
                qry' = [route |-> "dashboard", device_id |-> device_id,
                        shown |-> TRUE,
                        is_online |->
                            get_device_status(
                                [has |-> TRUE, t |-> readings[i].timestamp])]
    /\ UNCHANGED <<now, registry, readings, catalog, files, upl, ing, chk,
                   cmpArgs, cmpOut>>

\* firmware_manager.py:313-316: the devices counted as online.
OnlineDevices ==
    {d \in DOMAIN registry : now - registry[d].last_seen < 600}

\* The firmware manager's overview (firmware_manager.py:290-319).
show_dashboard ==
    /\ qry' = [route |-> "firmware_manager",
               online_devices |-> Cardinality(OnlineDevices)]
    /\ UNCHANGED <<now, registry, readings, catalog, files, upl, ing, chk,
                   cmpArgs, cmpOut>>

-----------------------------------------------------------------------------
(* The clock *)

Tick ==
    /\ now < MaxTime
    /\ now' = now + 1
    /\ UNCHANGED <<registry, readings, catalog, files, upl, ing, chk,
                   cmpArgs, cmpOut, qry>>

-----------------------------------------------------------------------------
(* Specifications *)

\* The server after construction: empty tables (db.create_all), an empty
\* firmware directory, no request in progress.
ServerInit ==
    /\ now = 0
    /\ registry = <<>>
    /\ readings = <<>>
    /\ catalog = <<>>
    /\ files = <<>>
    /\ upl = [w \in Workers |-> IdleUpload]
    /\ ing = [w \in Workers |-> IdleIngest]
    /\ chk = NoCheck
    /\ qry = NoQuery

CmpIdle ==
    /\ cmpArgs = <<V_1_5_0, V_1_5_0, V_1_5_0>>
    /\ cmpOut = [called |-> FALSE]

Init == ServerInit /\ CmpIdle

\* The firmware routes under concurrent uploads: two workers, two versions,
\* two binaries, within one tick of the clock.
UploadNext ==
    \/ \E w \in Workers :
          \E form \in GoodForms({V_1_5_0, V_2_0_0}, {None}, Contents)
                          \cup BadForms :
              UploadRequest(w, form)
    \/ \E w \in Workers : UploadSave(w)
    \/ \E w \in Workers : UploadHash(w)
    \/ \E w \in Workers : UploadCommit(w)
    \/ \E w \in Workers : UploadCrash(w)

SpecUpload == Init /\ [][UploadNext]_vars

\* The upload route with one request at a time: a request begins when no
\* other is between its validation and its end.
RetryNext ==
    \/ \E w \in Workers :
          \E form \in GoodForms({V_1_5_0, V_2_0_0}, {None}, Contents) :
              /\ \A v \in Workers : UploadFree(v)
              /\ UploadRequest(w, form)
    \/ \E w \in Workers : UploadSave(w)
    \/ \E w \in Workers : UploadHash(w)
    \/ \E w \in Workers : UploadCommit(w)
    \/ \E w \in Workers : UploadCrash(w)

SpecRetry == Init /\ [][RetryNext]_vars

\* The registry of the update-check runs: both devices have sent telemetry
\* at tick 0 and the first had auto_update switched off (device_config).
CheckRegistry ==
    [d \in DeviceIds |->
        [NewDevice(V_1_5_0, 0, "10.0.0.1", 0)
            EXCEPT !.auto_update = (d # <<"ESP32_001">>)]]

\* The readings those two requests stored.
CheckReadings ==
    << [NoReading EXCEPT !.device_id = <<"ESP32_001">>, !.temperature = 23,
                         !.humidity = 41, !.firmware_version = V_1_5_0],
       [NoReading EXCEPT !.device_id = <<"ESP32_002">>, !.temperature = 23,
                         !.humidity = 41, !.firmware_version = V_1_5_0] >>

CheckInit ==
    /\ now = 0
    /\ registry = CheckRegistry
    /\ readings = CheckReadings
    /\ catalog = <<>>
    /\ files = <<>>
    /\ upl = [w \in Workers |-> IdleUpload]
    /\ ing = [w \in Workers |-> IdleIngest]
    /\ chk = NoCheck
    /\ qry = NoQuery
    /\ CmpIdle

\* The update check against a catalog filled by one upload at a time.
CheckNext ==
    \/ Tick
    \/ \E form \in GoodForms({V_1_5_0, V_2_0_0}, StableFields, {<<"a">>}) :
          UploadRequest("w1", form)
    \/ UploadSave("w1")
    \/ UploadHash("w1")
    \/ UploadCommit("w1")
    \/ \E a \in CheckArgs : check_firmware_update(a[1], a[2])

SpecCheck == CheckInit /\ [][CheckNext]_vars

\* Telemetry intake under concurrent requests.
IngestNext ==
    \/ Tick
    \/ \E w \in Workers, ip \in Ips :
          \E data \in GoodBodies(DeviceIds, {Missing, Text(V_1_5_0)}, {Missing})
                          \cup BadBodies :
              IngestRequest(w, data, ip)
    \/ \E w \in Workers : IngestCommit(w)
    \/ \E w \in Workers : IngestCrash(w)

SpecIngest == Init /\ [][IngestNext]_vars

\* Telemetry of one device under concurrent requests, with and without a
\* firmware_version and with a device-reported timestamp before the clock,
\* while the table has room for one reading more than elsewhere.
RaceNext ==
    \/ \E w \in Workers, ip \in Ips :
          \E data \in GoodBodies({<<"ESP32_001">>}, {Missing, Text(V_1_5_0)},
                                  {Missing, Iso(-90000)}) :
              /\ ReadingsInSight < MaxReadings + 1
              /\ IngestBegin(w, data, ip)
    \/ \E w \in Workers : IngestCommit(w)

SpecRace == Init /\ [][RaceNext]_vars

\* Bodies on and next to the bounds of lines 160 and 166.
RangeBodies ==
    { Body(Text(<<"ESP32_001">>), Num(t), Num(h), Missing, Missing) :
      <<t, h>> \in { <<-50, 0>>, <<100, 100>>, <<-51, 41>>, <<101, 41>>,
                     <<23, -1>>, <<23, 101>> } }

\* Bodies with a required field absent, null, an array or no number, and
\* bodies that are no JSON object.
MalformedBodies ==
    { Body(Missing, Num(23), Num(41), Missing, Missing),
      Body(Text(<<"ESP32_001">>), Missing, Num(41), Missing, Missing),
      Body(Text(<<"ESP32_001">>), Num(23), Missing, Missing, Missing),
      Body(Text(<<"ESP32_001">>), Text(<<"x">>), Num(41), Missing, Missing),
      Body(Text(<<"ESP32_001">>), Num(23), Text(<<"x">>), Missing, Missing),
      Body(Text(<<"ESP32_001">>), Null, Num(41), Missing, Missing),
      Body(Text(<<"ESP32_001">>), Num(23), Null, Missing, Missing),
      Body(Text(<<"ESP32_001">>), List, Num(41), Missing, Missing),
      Null, List, Num(5), Text(<<"x">>) }

\* What the timestamp field of a body can hold: nothing, a string that
\* parses, a string that does not, a number, null, an array.
TimestampValues == {Missing, Iso(0), Text(<<"x">>), Num(5), Null, List}

\* Telemetry intake, one request at a time, over the inputs of validation.
ValidateNext ==
    \/ Tick
    \/ \E ip \in Ips :
          \E data \in RangeBodies \cup MalformedBodies
                          \cup GoodBodies({<<"ESP32_001">>}, {Missing},
                                          TimestampValues) :
              IngestRequest("w1", data, ip)
    \/ IngestCommit("w1")

SpecValidate == Init /\ [][ValidateNext]_vars


-----------------------------------------------------------------------------
(* Inputs of version_compare: valid dotted-numeric version strings *)

\* The components the version strings are built from: a zero, one digit and
\* two digits ("9" against "10" tells numeric from string comparison).
Components == {<<"0">>, <<"9">>, <<"1", "0">>}

RECURSIVE JoinDots(_)
JoinDots(parts) ==
    IF Len(parts) = 1 THEN parts[1]
    ELSE parts[1] \o <<".">> \o JoinDots(Tail(parts))

ValidVersions ==
    { JoinDots(p) : p \in UNION { [1..n -> Components] : n \in 1..MaxParts } }

NoResult == [called |-> FALSE]

CmpInit ==
    /\ ServerInit
    /\ cmpArgs \in ValidVersions \X ValidVersions \X ValidVersions
    /\ cmpOut = NoResult

\* The comparator applied to each ordered pair of the three strings.
CompareAll ==
    /\ cmpOut = NoResult
    /\ cmpOut' = [called |-> TRUE,
                  aa |-> version_compare(cmpArgs[1], cmpArgs[1]),
                  ab |-> version_compare(cmpArgs[1], cmpArgs[2]),
                  ba |-> version_compare(cmpArgs[2], cmpArgs[1]),
                  bc |-> version_compare(cmpArgs[2], cmpArgs[3]),
                  ac |-> version_compare(cmpArgs[1], cmpArgs[3])]
    /\ UNCHANGED <<cmpArgs, now, registry, readings, catalog, files, upl,
                   ing, chk, qry>>

CmpNext == CompareAll

SpecCmp == CmpInit /\ [][CmpNext]_vars

\* Telemetry of one device from two addresses, with the configuration route.
ConfigNext ==
    \/ Tick
    \/ \E ip \in {"10.0.0.1", "10.0.0.2"} :
          \E data \in GoodBodies({<<"ESP32_001">>}, {Missing, Text(V_1_5_0)},
                                 {Missing}) :
              IngestRequest("w1", data, ip)
    \/ IngestCommit("w1")
    \/ \E device_id \in DeviceIds, method \in {"GET", "POST"},
          data \in ConfigBodies :
          device_config(device_id, method, data)

SpecConfig == Init /\ [][ConfigNext]_vars

\* The configuration route over a registry of none, one or both devices,
\* all within the first second of the clock.
SettingsNext ==
    \/ \E ip \in Ips :
          \E data \in GoodBodies(DeviceIds, {Missing}, {Missing}) :
              IngestRequest("w1", data, ip)
    \/ IngestCommit("w1")
    \/ \E device_id \in DeviceIds, method \in {"GET", "POST"},
          data \in ConfigBodies :
          device_config(device_id, method, data)

SpecSettings == Init /\ [][SettingsNext]_vars

\* Readings for the read routes: two of the first device without a
\* timestamp of their own, one stamped a day and an hour before the start of
\* the clock, one stamped ahead of the clock, and one of the second device.
QueryBodies ==
    { Body(Text(<<"ESP32_001">>), Num(20), Num(40), Missing, Missing),
      Body(Text(<<"ESP32_001">>), Num(30), Num(60), Missing, Missing),
      Body(Text(<<"ESP32_001">>), Num(10), Num(10), Missing, Iso(-90000)),
      Body(Text(<<"ESP32_001">>), Num(50), Num(80), Missing, Iso(1000)),
      Body(Text(<<"ESP32_002">>), Num(90), Num(90), Missing, Missing) }

\* The device_id parameter of the read routes.
QueryDevices == {None} \cup {Some(d) : d \in DeviceIds}

\* The period parameter of get_sensor_stats: absent, a known one, an
\* unknown one.
QueryPeriods == {None, Some(<<"7", "d">>), Some(<<"1", "y">>)}

\* Telemetry intake, one request at a time, with the latest reading read.
LatestNext ==
    \/ Tick
    \/ \E ip \in Ips, data \in QueryBodies : IngestRequest("w1", data, ip)
    \/ IngestCommit("w1")
    \/ \E device_id \in QueryDevices : get_latest_data(device_id)

SpecLatest == Init /\ [][LatestNext]_vars

\* Telemetry intake, one request at a time, with the statistics read, all
\* within the first second of the clock.
StatsNext ==
    \/ \E ip \in Ips, data \in QueryBodies : IngestRequest("w1", data, ip)
    \/ IngestCommit("w1")
    \/ \E device_id \in QueryDevices, period \in QueryPeriods :
          get_sensor_stats(device_id, period)

SpecStats == Init /\ [][StatsNext]_vars

\* Readings for get_historical_data: of the first device one stamped by
\* the server, one stamped before the start of the clock and one stamped
\* ahead of it, and one of the second device.
HistoryBodies ==
    { Body(Text(<<"ESP32_001">>), Num(20), Num(40), Missing, Missing),
      Body(Text(<<"ESP32_001">>), Num(10), Num(10), Missing, Iso(-90000)),
      Body(Text(<<"ESP32_001">>), Num(50), Num(80), Missing, Iso(1000)),
      Body(Text(<<"ESP32_002">>), Num(90), Num(90), Missing, Missing) }

\* The catalog filled by one upload at a time, files removed from outside,
\* and downloads.
DownloadNext ==
    \/ \E form \in GoodForms({V_1_5_0, V_2_0_0}, {None}, Contents) :
          UploadRequest("w1", form)
    \/ UploadSave("w1")
    \/ UploadHash("w1")
    \/ UploadCommit("w1")
    \/ \E filename \in DOMAIN files : RemoveFile(filename)
    \/ \E version \in {V_1_5_0, V_2_0_0} : download_firmware(version)

SpecDownload == Init /\ [][DownloadNext]_vars

\* Version strings of the upload form, which reach line 308 as they were
\* sent: "1_0" and "1 0" differ in one character, "1.5.0" is a third.
NameVersions == {<<"1", "_", "0">>, <<"1", " ", "0">>, V_1_5_0}

\* The catalog filled by one upload at a time under those versions.
NamesNext ==
    \/ \E form \in GoodForms(NameVersions, {None}, Contents) :
          UploadRequest("w1", form)
    \/ UploadSave("w1")
    \/ UploadHash("w1")
    \/ UploadCommit("w1")

SpecNames == Init /\ [][NamesNext]_vars

\* The parameters of get_historical_data: a device or none, bounds at the
\* start of the clock, absent or unparseable, a limit of 1, absent or
\* negative.
HistoryDevices == {None, Some(<<"ESP32_001">>)}

HistoryDates == {Missing, Iso(0), Text(<<"x">>)}

HistoryLimits == {Missing, Num(1), Num(-1)}

\* Telemetry intake, one request at a time, with the history read, all
\* within the first second of the clock.
HistoryNext ==
    \/ \E ip \in Ips, data \in HistoryBodies : IngestRequest("w1", data, ip)
    \/ IngestCommit("w1")
    \/ \E device_id \in HistoryDevices, start_date \in HistoryDates,
          end_date \in HistoryDates, limit \in HistoryLimits :
          get_historical_data(device_id, start_date, end_date, limit)

SpecHistory == Init /\ [][HistoryNext]_vars

\* Seconds between last_seen, or the timestamp of a reading, and the time
\* the dashboards look: around the thresholds of the two dashboards.
Ages == {0, 179, 180, 181, 599, 600, 601}

\* Seconds by which a device-reported timestamp is ahead of the clock.
Leads == {179, 180, 181}

\* The dashboards look at time 1000 at a server that has one device, last
\* seen some seconds ago, whose one reading is stamped by the server at that
\* time or by the device with a time of its own.
OnlineInit ==
    /\ now = 1000
    /\ \E age \in Ages :
          /\ registry = (<<"ESP32_001">> :>
                            NewDevice(V_1_5_0, now - age, "10.0.0.1", 0))
          /\ \E t \in {now - a : a \in Ages} \cup {now + l : l \in Leads} :
                readings = << [device_id |-> <<"ESP32_001">>,
                               temperature |-> 23, humidity |-> 41,
                               firmware_version |-> V_1_5_0,
                               timestamp |-> t, created_at |-> now - age] >>
    /\ catalog = <<>>
    /\ files = <<>>
    /\ upl = [w \in Workers |-> IdleUpload]
    /\ ing = [w \in Workers |-> IdleIngest]
    /\ chk = NoCheck
    /\ qry = NoQuery
    /\ CmpIdle

OnlineNext ==
    \/ \E device_id \in DeviceIds : show_device_status(device_id)
    \/ show_dashboard

SpecOnline == OnlineInit /\ [][OnlineNext]_vars

\* Every route, every worker, every input.
Next ==
    \/ UploadNext
    \/ RetryNext
    \/ CheckNext
    \/ IngestNext
    \/ RaceNext
    \/ ValidateNext
    \/ ConfigNext
    \/ SettingsNext
    \/ LatestNext
    \/ StatsNext
    \/ HistoryNext
    \/ DownloadNext
    \/ NamesNext
    \/ OnlineNext
    \/ CompareAll

Spec == Init /\ [][Next]_vars

-----------------------------------------------------------------------------
(* C1: when two ingest requests for one unknown device_id run concurrently *)
(* (both read the registry before either commits), neither fails: both are *)
(* answered 201, both readings are stored, and the device has one          *)
(* DeviceRecord.                                                           *)
C1_RaceBothAccepted ==
    \A w1, w2 \in Workers :
        ( /\ w1 # w2
          /\ ing[w1].pc = "done" /\ ing[w2].pc = "done"
          /\ ing[w1].status \in {201, 500} /\ ing[w2].status \in {201, 500}
          /\ ing[w1].reading.device_id = ing[w2].reading.device_id
          /\ ~ing[w1].found /\ ~ing[w2].found )
        => /\ ing[w1].status = 201 /\ ing[w2].status = 201
           /\ ing[w1].reading.device_id \in DOMAIN registry
           /\ \E i, j \in 1..Len(readings) :
                 /\ i # j
                 /\ readings[i] = ing[w1].reading
                 /\ readings[j] = ing[w2].reading

-----------------------------------------------------------------------------
(* C2: when two uploads of one version run concurrently (both pass the     *)
(* existence check before either commits), exactly one succeeds, the other *)
(* does not, and the file stored for the version is not overwritten by the *)
(* losing upload: it holds the winner's bytes.                             *)
C2_RaceKeepsWinnerFile ==
    \A w1, w2 \in Workers :
        ( /\ w1 # w2
          /\ upl[w1].pc = "done" /\ upl[w2].pc = "done"
          /\ upl[w1].version = upl[w2].version
          /\ upl[w1].status \in {201, 500} /\ upl[w2].status \in {201, 500}
          /\ upl[w1].status = 201 )
        => /\ upl[w2].status # 201
           /\ files[FirmwareFilename(upl[w1].version)] = upl[w1].content

-----------------------------------------------------------------------------
(* C3: the reading and the registry write of an ingest request are stored  *)
(* together or not at all: a request that ends its commit with 201 has     *)
(* appended its reading and written its device's registry row (last_seen,  *)
(* and the columns it assigned a value other than the loaded one) in that  *)
(* one step, a request that ends otherwise (a refused commit, a crash) has *)
(* changed neither table, nothing else changes the two tables, and every   *)
(* stored reading has a DeviceRecord.                                      *)
C3_ReadingAndRegistryAtomic ==
    /\ [](\A i \in 1..Len(readings) : readings[i].device_id \in DOMAIN registry)
    /\ [][ /\ \A w \in Workers :
                 (ing[w].pc = "commit" /\ ing'[w].pc # "commit")
                 => IF ing'[w].pc = "done" /\ ing'[w].status = 201
                    THEN /\ readings' = Append(readings, ing[w].reading)
                         /\ ing[w].reading.device_id \in DOMAIN registry'
                         /\ LET row == registry'[ing[w].reading.device_id]
                            IN  /\ row.last_seen = ing[w].last_seen
                                /\ ing[w].last_ip # ing[w].loaded.last_ip
                                       => row.last_ip = ing[w].last_ip
                                /\ ing[w].reading.firmware_version
                                           # ing[w].loaded.current_firmware
                                       => row.current_firmware
                                              = ing[w].reading.firmware_version
                    ELSE readings' = readings /\ registry' = registry
           /\ (readings' # readings \/ registry' # registry)
                 => \E w \in Workers :
                       /\ ing[w].pc = "commit"
                       /\ ing'[w].pc = "done" /\ ing'[w].status = 201
         ]_vars

\* One request lost the race for its device and was answered 500, another
\* died before its commit for a device never seen: the one stored reading is
\* the winner's, and it has its DeviceRecord.
C3_Witness ==
    \E w1, w2 \in Workers :
        /\ ing[w1].pc = "done" /\ ing[w1].status = 500 /\ ~ing[w1].found
        /\ ing[w2].pc = "crashed"
        /\ ing[w2].reading.device_id \notin DOMAIN registry
        /\ Len(readings) = 1
        /\ readings[1] # ing[w1].reading
        /\ readings[1].device_id = ing[w1].reading.device_id
        /\ readings[1].device_id \in DOMAIN registry

-----------------------------------------------------------------------------
(* C4: an upload of a version the catalog already holds is rejected with   *)
(* "Version already exists"; the catalog never holds two rows of one       *)
(* version, a row once inserted never changes, and the checksum of the row *)
(* is the one the successful upload computed.                              *)
C4_NotOverwritable ==
    [][ /\ \A i \in 1..Len(catalog) :
              i <= Len(catalog') /\ catalog'[i] = catalog[i]
        /\ \A i, j \in 1..Len(catalog') :
              catalog'[i].version = catalog'[j].version => i = j
        /\ \A w \in Workers :
              ( /\ upl[w].pc \in {"idle", "done", "crashed"}
                /\ upl'[w] # upl[w]
                /\ \E i \in 1..Len(catalog) :
                      catalog[i].version = upl'[w].version )
              => /\ upl'[w].pc = "done"
                 /\ upl'[w].status = 400
                 /\ upl'[w].message = "Version already exists"
        /\ \A w \in Workers :
              (upl[w].pc = "commit" /\ upl'[w].status = 201)
              => /\ Len(catalog') = Len(catalog) + 1
                 /\ catalog'[Len(catalog')].version = upl[w].version
                 /\ catalog'[Len(catalog')].checksum = upl[w].checksum
      ]_vars

\* A second upload of a version, with other bytes, has been rejected and the
\* catalog holds the version once, with the first upload's checksum.
C4_Witness ==
    \E w \in Workers :
        /\ upl[w].pc = "done" /\ upl[w].status = 400
        /\ upl[w].message = "Version already exists"
        /\ \E i \in 1..Len(catalog) :
              /\ catalog[i].version = upl[w].version
              /\ catalog[i].checksum # Sha256(upl[w].content)

-----------------------------------------------------------------------------
(* C5: for every release of the catalog whose file exists, the persisted   *)
(* checksum is the digest of the bytes the file holds now.                 *)
C5_ChecksumMatchesFile ==
    \A i \in 1..Len(catalog) :
        catalog[i].filename \in DOMAIN files
        => catalog[i].checksum = Sha256(files[catalog[i].filename])

-----------------------------------------------------------------------------
(* C6: an update check with a device_id and a current_version c, when a    *)
(* latest stable release L exists, answers update_available = TRUE exactly *)
(* when version_compare(L.version, c) is 1 (GREATER), and then with        *)
(* new_version = L.version.                                                *)
C6_UpdateDecision ==
    [][ ( /\ chk' # chk
          /\ ~Falsy(chk'.device_id) /\ ~Falsy(chk'.current_version)
          /\ LatestStable # {} )
        => \E L \in LatestStable :
              LET cmp == version_compare(L.version, chk'.current_version.s)
              IN  /\ chk'.response.update_available
                        = (~cmp.raised /\ cmp.value = 1)
                  /\ chk'.response.update_available
                        => chk'.response.new_version = Some(L.version)
      ]_vars

\* Stable 2.0.0 against current 1.5.0: update_available with new_version
\* 2.0.0.
C6_Witness ==
    /\ chk.called
    /\ chk.current_version = Some(V_1_5_0)
    /\ chk.response.update_available
    /\ chk.response.new_version = Some(V_2_0_0)
    /\ \E i \in 1..Len(catalog) :
          catalog[i].version = V_2_0_0 /\ catalog[i].is_stable

-----------------------------------------------------------------------------
(* C7: an update check never advertises a release whose is_stable is       *)
(* FALSE, and with no stable release in the catalog it answers             *)
(* update_available = FALSE whatever the current_version.                  *)
C7_ChannelGating ==
    [][ chk' # chk
        => /\ chk'.response.update_available
                => \E i \in 1..Len(catalog) :
                      /\ catalog[i].is_stable
                      /\ chk'.response.new_version = Some(catalog[i].version)
           /\ chk'.response.latest_version.has
                => \E i \in 1..Len(catalog) :
                      /\ catalog[i].is_stable
                      /\ chk'.response.latest_version = Some(catalog[i].version)
           /\ (\A i \in 1..Len(catalog) : ~catalog[i].is_stable)
                => ~chk'.response.update_available
      ]_vars

\* Only a pre-release 2.0.0 in the catalog: a device on 1.5.0 is answered
\* 200 with update_available = FALSE.
C7_Witness ==
    /\ chk.called
    /\ chk.current_version = Some(V_1_5_0)
    /\ chk.response.status = 200
    /\ ~chk.response.update_available
    /\ ~chk.response.latest_version.has
    /\ Len(catalog) = 1
    /\ catalog[1].version = V_2_0_0 /\ ~catalog[1].is_stable

-----------------------------------------------------------------------------
(* C8: the release an update check compares against is a stable release    *)
(* whose release_date is the maximum among the stable releases, and a      *)
(* check with a device_id and a current_version compares against one       *)
(* whenever a stable release exists.                                       *)
C8_LatestStableByDate ==
    [][ chk' # chk
        => /\ chk'.response.latest_version.has
                => \E i \in 1..Len(catalog) :
                      /\ catalog[i].is_stable
                      /\ chk'.response.latest_version = Some(catalog[i].version)
                      /\ \A j \in 1..Len(catalog) :
                            catalog[j].is_stable =>
                                catalog[j].release_date <= catalog[i].release_date
           /\ ( /\ chk'.response.status = 200
                /\ \E i \in 1..Len(catalog) : catalog[i].is_stable )
                => chk'.response.latest_version.has
      ]_vars

\* Two stable releases of different dates, the higher version the older one:
\* the check compares against the newer release.
C8_Witness ==
    /\ chk.called
    /\ Len(catalog) = 2
    /\ catalog[1].is_stable /\ catalog[2].is_stable
    /\ catalog[1].release_date < catalog[2].release_date
    /\ catalog[1].version = V_2_0_0
    /\ chk.response.latest_version = Some(catalog[2].version)

-----------------------------------------------------------------------------
(* C9: the answer of an update check does not depend on the device's       *)
(* auto_update flag: any other registered device, whatever its flag, gets  *)
(* the same answer for the same catalog and current_version; and the check *)
(* changes no stored state.                                                *)
C9_IgnoresAutoUpdate ==
    [][ (chk' # chk /\ ~Falsy(chk'.device_id))
        => /\ UNCHANGED <<registry, readings, catalog, files>>
           /\ \A d \in DOMAIN registry :
                 chk'.response \in CheckResponses(Some(d), chk'.current_version)
      ]_vars

\* A device with auto_update off has been told update_available = TRUE,
\* next to a device with auto_update on.
C9_Witness ==
    /\ chk.called
    /\ chk.device_id.has /\ chk.device_id.s \in DOMAIN registry
    /\ ~registry[chk.device_id.s].auto_update
    /\ \E d \in DOMAIN registry : registry[d].auto_update
    /\ chk.response.update_available

-----------------------------------------------------------------------------
(* C10: version_compare is a total order on valid dotted-numeric version   *)
(* strings: compare(a,a) is 0 (EQUAL), compare(a,b) is the negation of     *)
(* compare(b,a), and compare(a,b) = 1 with compare(b,c) = 1 implies        *)
(* compare(a,c) = 1 (GREATER); no call raises.                             *)
C10_TotalOrder ==
    cmpOut.called =>
        /\ ~cmpOut.aa.raised /\ ~cmpOut.ab.raised /\ ~cmpOut.ba.raised
        /\ ~cmpOut.bc.raised /\ ~cmpOut.ac.raised
        /\ cmpOut.aa.value = 0
        /\ cmpOut.ab.value = 0 - cmpOut.ba.value
        /\ (cmpOut.ab.value = 1 /\ cmpOut.bc.value = 1) => cmpOut.ac.value = 1

\* Three strings of different lengths in a strictly descending chain:
\* such as "10.0" > "9" > "0.9".
C10_Witness ==
    /\ cmpOut.called
    /\ Len(cmpArgs[1]) # Len(cmpArgs[3])
    /\ cmpOut.ab.value = 1 /\ cmpOut.bc.value = 1 /\ cmpOut.ac.value = 1

-----------------------------------------------------------------------------
(* C11: version_compare is numeric and positional, a missing trailing      *)
(* component counting as 0: its result is the lexicographic comparison of  *)
(* the two integer lists after the shorter is padded with zeros, so        *)
(* compare("1.2", "1.2.0") is 0 (EQUAL) and compare("1.10.0", "1.9.0") is  *)
(* 1 (GREATER).                                                            *)
C11_PaddedLexicographic ==
    LET Pad(p, n) == [i \in 1..n |-> IF i <= Len(p) THEN p[i] ELSE 0]
        Lex(x, y) ==
            IF x = y THEN 0
            ELSE LET k == CHOOSE i \in 1..Len(x) :
                              x[i] # y[i] /\ \A j \in 1..(i - 1) : x[j] = y[j]
                 IN  IF x[k] > y[k] THEN 1 ELSE -1
        Expected(v1, v2) ==
            LET p1 == VersionParts(v1)
                p2 == VersionParts(v2)
                n  == Max(Len(p1), Len(p2))
            IN  [raised |-> FALSE, value |-> Lex(Pad(p1, n), Pad(p2, n))]
    IN  /\ version_compare(<<"1", ".", "2">>,
                           <<"1", ".", "2", ".", "0">>).value = 0
        /\ version_compare(<<"1", ".", "1", "0", ".", "0">>,
                           <<"1", ".", "9", ".", "0">>).value = 1
        /\ cmpOut.called =>
               /\ cmpOut.ab = Expected(cmpArgs[1], cmpArgs[2])
               /\ cmpOut.ba = Expected(cmpArgs[2], cmpArgs[1])
               /\ cmpOut.bc = Expected(cmpArgs[2], cmpArgs[3])
               /\ cmpOut.ac = Expected(cmpArgs[1], cmpArgs[3])

\* A string equal to a longer one that only adds a zero, and greater than
\* one whose first component is 9 against its 10: "10", "10.0", "9".
C11_Witness ==
    /\ cmpOut.called
    /\ Len(VersionParts(cmpArgs[1])) < Len(VersionParts(cmpArgs[2]))
    /\ cmpOut.ab.value = 0
    /\ VersionParts(cmpArgs[1])[1] = 10
    /\ VersionParts(cmpArgs[3])[1] = 9
    /\ cmpOut.ac.value = 1

-----------------------------------------------------------------------------
(* C12: an update check that carries a device_id and a current_version     *)
(* with a non-numeric component (such as "unknown") is rejected with       *)
(* status 400; it is neither answered as a success nor left to fail        *)
(* unhandled.                                                              *)
C12_MalformedVersionRejected ==
    (/\ chk.called
     /\ ~Falsy(chk.device_id) /\ ~Falsy(chk.current_version)
     /\ VersionRaises(chk.current_version.s))
    => chk.response.status = 400

-----------------------------------------------------------------------------
(* C13: an ingest whose temperature is outside [-50, 100] or whose         *)
(* humidity is outside [0, 100] is answered 400 with a range message and   *)
(* leaves the readings and the registry as they were; an ingest whose      *)
(* values lie on the bounds -50, 100, 0, 100 goes on to the commit and is  *)
(* answered 201 with its reading stored.                                   *)
C13_RangeRejected ==
    /\ [][\A data \in RangeBodies, ip \in Ips :
             IngestRequest("w1", data, ip) =>
                 IF data.temperature.n < -50 \/ data.temperature.n > 100
                    \/ data.humidity.n < 0 \/ data.humidity.n > 100
                 THEN /\ ing'["w1"].pc = "done"
                      /\ ing'["w1"].status = 400
                      /\ ing'["w1"].message \in
                             {"Temperature out of reasonable range",
                              "Humidity out of reasonable range"}
                      /\ readings' = readings
                      /\ registry' = registry
                 ELSE /\ ing'["w1"].pc = "commit"
                      /\ ing'["w1"].reading.temperature = data.temperature.n
                      /\ ing'["w1"].reading.humidity = data.humidity.n]_vars
    /\ [][IngestCommit("w1") =>
             /\ ing'["w1"].status = 201
             /\ readings' = Append(readings, ing["w1"].reading)]_vars

\* A reading on the lower bounds is stored, then a request out of range has
\* been turned down with the device registered and the clock moved on.
C13_Witness ==
    /\ Len(readings) = 1
    /\ readings[1].temperature = -50 /\ readings[1].humidity = 0
    /\ now = 1
    /\ registry[<<"ESP32_001">>].last_seen = 0
    /\ ing["w1"].status = 400
    /\ ing["w1"].message = "Humidity out of reasonable range"

-----------------------------------------------------------------------------
(* C14: an ingest whose device_id is missing, or whose temperature or      *)
(* humidity is absent, null, an array or no number, or whose body is no    *)
(* JSON object, is answered 400 (never 500) and stores nothing.            *)
C14_MalformedRejected ==
    [][\A data \in MalformedBodies, ip \in Ips :
          IngestRequest("w1", data, ip) =>
              /\ ing'["w1"].pc = "done"
              /\ ing'["w1"].status = 400
              /\ readings' = readings
              /\ registry' = registry]_vars

-----------------------------------------------------------------------------
(* C15: an ingest that is valid apart from its timestamp is accepted       *)
(* whatever the timestamp field holds; when the field is absent, is a      *)
(* string that does not parse or is no string, the reading's timestamp is  *)
(* the server time of the request.                                         *)
C15_TimestampFallback ==
    [][\A data \in GoodBodies({<<"ESP32_001">>}, {Missing}, TimestampValues),
          ip \in Ips :
          IngestRequest("w1", data, ip) =>
              /\ ing'["w1"].pc = "commit"
              /\ data.timestamp.kind # "iso" =>
                     ing'["w1"].reading.timestamp = now]_vars

-----------------------------------------------------------------------------
(* C16: when the last reading stored for a device d came from an ingest    *)
(* without a timestamp of its own, latest(d) answers 200 with the device   *)
(* id, temperature and humidity of that reading, whatever readings were    *)
(* stored for d before it (taken here with no other reading of d bearing   *)
(* the very same timestamp).                                               *)
C16_LatestRoundTrip ==
    [][\A d \in DeviceIds :
          (/\ get_latest_data(Some(d))
           /\ RowsOf(Some(d)) # {})
          => LET k == CHOOSE i \in RowsOf(Some(d)) :
                          \A j \in RowsOf(Some(d)) : j <= i
             IN  (/\ readings[k].timestamp = readings[k].created_at
                  /\ \A j \in RowsOf(Some(d)) \ {k} :
                         readings[j].timestamp # readings[k].timestamp)
                 => /\ qry'.status = 200
                    /\ qry'.data.device_id = d
                    /\ qry'.data.temperature = readings[k].temperature
                    /\ qry'.data.humidity = readings[k].humidity]_vars

-----------------------------------------------------------------------------
(* C17: an accepted ingest of a registered device sets last_seen, last_ip  *)
(* and current_firmware of its row and leaves auto_update, registered_at   *)
(* and every other row as they were; an accepted first ingest creates the  *)
(* row with auto_update true; and auto_update of a registered device       *)
(* changes only by a POST to the configuration route.                      *)
C17_IngestKeepsConfiguration ==
    /\ [][(IngestCommit("w1") /\ ing'["w1"].status = 201) =>
             LET d == ing["w1"].reading.device_id
             IN  /\ DOMAIN registry' = DOMAIN registry \cup {d}
                 /\ \A e \in DOMAIN registry \ {d} : registry'[e] = registry[e]
                 /\ registry'[d].last_seen = ing["w1"].last_seen
                 /\ registry'[d].last_ip = ing["w1"].last_ip
                 /\ registry'[d].current_firmware =
                        ing["w1"].reading.firmware_version
                 /\ IF d \in DOMAIN registry
                    THEN /\ registry'[d].auto_update = registry[d].auto_update
                         /\ registry'[d].registered_at =
                                registry[d].registered_at
                    ELSE registry'[d].auto_update = TRUE]_vars
    /\ [][\A d \in DOMAIN registry :
             registry'[d].auto_update # registry[d].auto_update
             => /\ qry'.route = "config" /\ qry'.method = "POST"
                /\ qry'.device_id = d]_vars

\* auto_update was switched off by a POST answered while last_seen was 0,
\* and an ingest accepted one second later from another address has left
\* it off.
C17_Witness ==
    /\ qry.route = "config" /\ qry.method = "POST" /\ qry.status = 200
    /\ qry.device_id = <<"ESP32_001">>
    /\ qry.device.last_seen = 0 /\ qry.device.last_ip = "10.0.0.1"
    /\ ~qry.device.auto_update
    /\ ing["w1"].status = 201
    /\ registry[<<"ESP32_001">>].last_seen = 1
    /\ registry[<<"ESP32_001">>].last_ip = "10.0.0.2"
    /\ registry[<<"ESP32_001">>].registered_at = 0
    /\ ~registry[<<"ESP32_001">>].auto_update

-----------------------------------------------------------------------------
-----------------------------------------------------------------------------
(* C20: a stats request for device d and a period counts exactly the       *)
(* readings of d whose timestamp lies between now - period and now, both   *)
(* included, and takes min and max over just these: readings of other      *)
(* devices, readings before the window and readings with a timestamp later *)
(* than now are left out.                                                  *)
C20_WindowEndsNow ==
    [][\A d \in DeviceIds, period \in QueryPeriods :
          get_sensor_stats(Some(d), period) =>
              LET length == IF period = Some(<<"7", "d">>)
                            THEN 7 * 24 * 3600 ELSE 24 * 3600
                  window == {i \in 1..Len(readings) :
                                /\ readings[i].device_id = d
                                /\ now - length <= readings[i].timestamp
                                /\ readings[i].timestamp <= now}
              IN  /\ qry'.data_points = Cardinality(window)
                  /\ window # {} =>
                        /\ \E i \in window :
                              qry'.temperature.min = readings[i].temperature
                        /\ \E i \in window :
                              qry'.temperature.max = readings[i].temperature
                        /\ \A i \in window :
                              /\ qry'.temperature.min <= readings[i].temperature
                              /\ qry'.temperature.max >= readings[i].temperature]_vars

-----------------------------------------------------------------------------
(* C18: wherever a dashboard reports online status, a device is online     *)
(* exactly when the absolute difference between the current time and the   *)
(* registry's last_seen is at most 180 seconds: the status the sensor      *)
(* dashboard shows for a device (taken here when its latest reading bears  *)
(* the time of last_seen), and the number of online devices the firmware   *)
(* manager shows, both follow this rule.                                   *)
C18_OnlineRule ==
    /\ [][\A d \in DOMAIN registry :
             (/\ show_device_status(d) /\ qry'.shown
              /\ \A i \in LatestRows(Some(d)) :
                     readings[i].timestamp = registry[d].last_seen)
             => qry'.is_online =
                    ((IF now >= registry[d].last_seen
                      THEN now - registry[d].last_seen
                      ELSE registry[d].last_seen - now) <= 180)]_vars
    /\ [][show_dashboard =>
             qry'.online_devices =
                 Cardinality({d \in DOMAIN registry :
                     (IF now >= registry[d].last_seen
                      THEN now - registry[d].last_seen
                      ELSE registry[d].last_seen - now) <= 180})]_vars

-----------------------------------------------------------------------------
(* C21: a history request with parseable bounds and a limit of at least 0  *)
(* (100 when absent) is answered 200 with at most limit readings, ordered  *)
(* by timestamp descending, each of the device asked for and with          *)
(* start <= timestamp <= end for the bounds given, and no qualifying       *)
(* reading left out is newer than a returned one; as many are returned as  *)
(* the limit and the number of qualifying readings allow.                  *)
C21_HistoryNewestFirst ==
    [][\A device_id \in HistoryDevices,
          start_date \in {Missing, Iso(0)}, end_date \in {Missing, Iso(0)},
          limit \in {Missing, Num(1)} :
          get_historical_data(device_id, start_date, end_date, limit) =>
              LET cap == IF limit = Missing THEN 100 ELSE limit.n
                  Qualifies(r) ==
                      /\ device_id.has => r.device_id = device_id.s
                      /\ start_date # Missing => r.timestamp >= 0
                      /\ end_date # Missing => r.timestamp <= 0
                  qualifying == {i \in 1..Len(readings) :
                                    Qualifies(readings[i])}
                  n == Len(qry'.data)
              IN  /\ qry'.status = 200
                  /\ qry'.count = n
                  /\ n <= cap
                  /\ n = cap \/ n = Cardinality(qualifying)
                  /\ \A k \in 1..n : Qualifies(qry'.data[k])
                  /\ \A k \in 1..(n - 1) :
                        qry'.data[k].timestamp >= qry'.data[k + 1].timestamp
                  /\ \A k \in 1..n : qry'.ids[k] \in qualifying
                  /\ \A k, l \in 1..n : k # l => qry'.ids[k] # qry'.ids[l]
                  /\ \A i \in qualifying :
                        (\A k \in 1..n : qry'.ids[k] # i)
                        => \A k \in 1..n :
                              readings[i].timestamp
                                  <= qry'.data[k].timestamp]_vars

\* Two readings of the first device are stored, the older one last, and a
\* request limited to one has answered with the newer one.
C21_Witness ==
    /\ Len(readings) = 2
    /\ readings[1].device_id = <<"ESP32_001">>
    /\ readings[2].device_id = <<"ESP32_001">>
    /\ readings[1].timestamp > readings[2].timestamp
    /\ qry.route = "history" /\ qry.status = 200
    /\ qry.ids = <<1>>

-----------------------------------------------------------------------------
(* C22: once no upload request is between writing its binary and its end,  *)
(* every firmware binary on storage is referenced by a catalog entry: an   *)
(* upload that failed after the binary was written has left none behind.   *)
C22_FailedUploadCleansUp ==
    (\A w \in Workers : UploadFree(w))
    => \A f \in DOMAIN files :
          \E i \in 1..Len(catalog) : catalog[i].filename = f

-----------------------------------------------------------------------------
(* C23: with one upload at a time, an upload of a version whose binary a   *)
(* failed upload left on storage without a catalog entry is not turned     *)
(* down as a duplicate, and the upload that reaches its commit is answered *)
(* 201 and leaves exactly one catalog entry for the version, whose         *)
(* checksum is the digest of the binary this upload sent, which is also    *)
(* what the file holds.                                                    *)
C23_RetryAfterFailure ==
    /\ [][\A w \in Workers :
             \A form \in GoodForms({V_1_5_0, V_2_0_0}, {None}, Contents) :
                 (/\ UploadRequest(w, form)
                  /\ \A i \in 1..Len(catalog) :
                        catalog[i].version # form.version.s)
                 => upl'[w].pc = "save"]_vars
    /\ [][\A w \in Workers :
             UploadCommit(w) =>
                 /\ upl'[w].status = 201
                 /\ Cardinality({i \in 1..Len(catalog') :
                        catalog'[i].version = upl[w].version}) = 1
                 /\ \A i \in 1..Len(catalog') :
                        catalog'[i].version = upl[w].version
                        => /\ catalog'[i].checksum = <<"sha256">> \o upl[w].content
                           /\ files'[catalog'[i].filename] = upl[w].content]_vars

\* An upload of a version with binary a failed after the file was written;
\* the upload of the same version with binary b has succeeded after it.
C23_Witness ==
    /\ upl["w2"].pc = "crashed" /\ upl["w2"].filename # <<>>
    /\ upl["w2"].content = <<"a">>
    /\ upl["w1"].pc = "done" /\ upl["w1"].status = 201
    /\ upl["w1"].version = upl["w2"].version
    /\ upl["w1"].content = <<"b">>
    /\ \E i \in 1..Len(catalog) :
          /\ catalog[i].version = upl["w1"].version
          /\ catalog[i].checksum = <<"sha256", "b">>

-----------------------------------------------------------------------------
(* C24: a download of a version with no catalog entry and a download of a  *)
(* version whose catalog entry names a file that is missing are different  *)
(* failures: the first is answered 404 (not found), the second is not; it  *)
(* is answered with a status and a message of its own.                     *)
C24_MissingFileIsDistinct ==
    [][\A version \in {V_1_5_0, V_2_0_0} :
          download_firmware(version) =>
              IF \A i \in 1..Len(catalog) : catalog[i].version # version
              THEN /\ qry'.status = 404
                   /\ qry'.message = "Firmware version not found"
              ELSE (\E i \in 1..Len(catalog) :
                       /\ catalog[i].version = version
                       /\ catalog[i].filename \notin DOMAIN files)
                   => /\ qry'.status # 404
                      /\ qry'.status # 200
                      /\ qry'.message # "Firmware version not found"]_vars

-----------------------------------------------------------------------------
(* C25: a GET or POST of the configuration of a device_id that has no row  *)
(* in the registry is answered 404 and leaves the registry as it is; for a *)
(* registered device a GET changes nothing and a POST changes nothing but  *)
(* auto_update of that device's row, which takes the value sent.           *)
C25_ConfigTouchesOneField ==
    [][\A d \in DeviceIds, method \in {"GET", "POST"}, data \in ConfigBodies :
          device_config(d, method, data) =>
              IF d \notin DOMAIN registry
              THEN qry'.status = 404 /\ registry' = registry
              ELSE /\ qry'.status = 200
                   /\ DOMAIN registry' = DOMAIN registry
                   /\ \A e \in DOMAIN registry \ {d} :
                         registry'[e] = registry[e]
                   /\ registry'[d].current_firmware =
                          registry[d].current_firmware
                   /\ registry'[d].last_seen = registry[d].last_seen
                   /\ registry'[d].last_ip = registry[d].last_ip
                   /\ registry'[d].registered_at = registry[d].registered_at
                   /\ registry'[d].auto_update =
                          IF method = "POST" /\ data.has_auto_update
                          THEN data.auto_update
                          ELSE registry[d].auto_update]_vars

\* Both devices are registered; a POST has switched auto_update of the
\* first off and the second still has it on.
C25_Witness ==
    /\ DOMAIN registry = DeviceIds
    /\ qry.route = "config" /\ qry.method = "POST" /\ qry.status = 200
    /\ qry.device_id = <<"ESP32_001">>
    /\ ~qry.device.auto_update
    /\ ~registry[<<"ESP32_001">>].auto_update
    /\ registry[<<"ESP32_002">>].auto_update

-----------------------------------------------------------------------------
(* C26: no downgrade. An update check that answers update_available true   *)
(* names a new_version that version_compare puts strictly above the        *)
(* request's current_version; and a check by a device whose version is     *)
(* equal to or above that of the latest stable release (the stable row     *)
(* with the latest release_date) answers update_available false.           *)
C26_NoDowngrade ==
    /\ [](chk.called /\ chk.response.update_available
          => /\ chk.response.new_version.has
             /\ version_compare(chk.response.new_version.s,
                                chk.current_version.s)
                    = [raised |-> FALSE, value |-> 1])
    /\ [][\A a \in CheckArgs :
             (/\ chk'.called /\ chk'.current_version = a[2]
              /\ ~Falsy(a[1]) /\ ~Falsy(a[2])
              /\ check_firmware_update(a[1], a[2])
              /\ \A i \in 1..Len(catalog) :
                    (/\ catalog[i].is_stable
                     /\ \A j \in 1..Len(catalog) :
                           catalog[j].is_stable
                           => catalog[j].release_date
                                  <= catalog[i].release_date)
                    => /\ ~version_compare(catalog[i].version, a[2].s).raised
                       /\ version_compare(catalog[i].version, a[2].s).value
                              <= 0)
             => ~chk'.response.update_available]_vars

\* A device on 2.0.0 has asked while the latest stable release is 1.5.0 and
\* was told there is no update.
C26_Witness ==
    /\ chk.called
    /\ chk.current_version = Some(V_2_0_0)
    /\ chk.response.status = 200
    /\ chk.response.latest_version = Some(V_1_5_0)
    /\ ~chk.response.update_available
    /\ ~chk.response.new_version.has

-----------------------------------------------------------------------------
(* C27: when the catalog holds a stable release whose version is above the *)
(* request's current_version, the update check answers update_available    *)
(* true, in whatever order the stable releases were uploaded (no two of    *)
(* them uploaded in the same second, so that "latest" names one row).      *)
C27_AnyNewerStableOffered ==
    [][\A a \in CheckArgs :
          (/\ ~Falsy(a[1]) /\ ~Falsy(a[2])
           /\ \A i, j \in 1..Len(catalog) :
                 catalog[i].is_stable /\ catalog[j].is_stable /\ i # j
                 => catalog[i].release_date # catalog[j].release_date
           /\ \E i \in 1..Len(catalog) :
                 /\ catalog[i].is_stable
                 /\ version_compare(catalog[i].version, a[2].s)
                        = [raised |-> FALSE, value |-> 1]
           /\ check_firmware_update(a[1], a[2]))
          => chk'.response.update_available]_vars

-----------------------------------------------------------------------------
(* C28: update convergence. When a check advertised new_version v and the  *)
(* next check comes with current_version v while v is still the version of *)
(* the latest stable release, it answers update_available false; and no    *)
(* check advertises the version the request says the device runs.          *)
C28_UpdateConverges ==
    /\ [](chk.called /\ chk.response.update_available
          => chk.response.new_version # chk.current_version)
    /\ [][\A a \in CheckArgs :
             (/\ chk.called /\ chk.response.update_available
              /\ a[2] = chk.response.new_version
              /\ \A i \in 1..Len(catalog) :
                    (/\ catalog[i].is_stable
                     /\ \A j \in 1..Len(catalog) :
                           catalog[j].is_stable
                           => catalog[j].release_date
                                  <= catalog[i].release_date)
                    => Some(catalog[i].version) = chk.response.new_version
              /\ check_firmware_update(a[1], a[2]))
             => /\ chk'.response.status = 200
                /\ ~chk'.response.update_available]_vars

\* A check with the version of the latest stable release, 2.0.0, which an
\* earlier release 1.5.0 precedes in the catalog, was told there is no
\* update.
C28_Witness ==
    /\ chk.called
    /\ chk.current_version = Some(V_2_0_0)
    /\ chk.response.status = 200
    /\ chk.response.latest_version = Some(V_2_0_0)
    /\ ~chk.response.update_available
    /\ \E i \in 1..Len(catalog) :
          catalog[i].version = V_1_5_0 /\ catalog[i].is_stable

-----------------------------------------------------------------------------
(* C29: an upload of a version v never changes the stored file or the      *)
(* checksum of a release with a different version w: the storage names     *)
(* firmware_v<version>.bin, after sanitising, of two releases with         *)
(* different version strings are different, and a step of an upload of v   *)
(* leaves the catalog row of w and the bytes of its file as they were.     *)
C29_UploadLeavesOtherReleases ==
    /\ [](\A i, j \in 1..Len(catalog) :
             catalog[i].version # catalog[j].version
             => catalog[i].filename # catalog[j].filename)
    /\ [][\A i \in 1..Len(catalog) :
             (/\ upl["w1"].pc \in {"save", "hash", "commit"}
              /\ upl["w1"].version # catalog[i].version
              /\ catalog[i].filename \in DOMAIN files)
             => /\ catalog'[i] = catalog[i]
                /\ catalog[i].filename \in DOMAIN files'
                /\ files'[catalog[i].filename]
                       = files[catalog[i].filename]]_vars

-----------------------------------------------------------------------------
(* C30: after any sequence of ingests the registry's current_firmware of  *)
(* every device that has stored readings is the firmware_version of that   *)
(* device's most recently accepted reading, in the order the server        *)
(* committed them, also when requests of one device overlap and when a     *)
(* reading carries a device-reported timestamp older than earlier ones.    *)
C30_RegistryFollowsLastReading ==
    \A d \in DOMAIN registry :
        \A i \in 1..Len(readings) :
            (/\ readings[i].device_id = d
             /\ \A j \in (i + 1)..Len(readings) : readings[j].device_id # d)
            => registry[d].current_firmware = readings[i].firmware_version

====
